---- MODULE Spec2Model ----
(***************************************************************************)
(* Model of the Meter command class codec (src/lib/commandclass/MeterCC.ts)*)
(* of node-zwave-js: the decode path of MeterCCReport and                  *)
(* MeterCCSupportedReport and the encode path of MeterCCGet.               *)
(*                                                                         *)
(* A command object is built once from its input and never changes; the   *)
(* state is the input handed to a constructor/serializer, whether it has  *)
(* run, and what it produced.  Every decode records the payload indices it *)
(* reads, so that reads past the end of the payload are visible.          *)
(*                                                                         *)
(* validatePayload, parseFloatWithScale, parseBitMask, unknownNumber and   *)
(* lookupMeterScale are imported by MeterCC.ts from modules that are not   *)
(* part of the sources at hand; they are modelled after sections 4.1-4.3   *)
(* of the specification.                                                   *)
(***************************************************************************)
EXTENDS Integers, Sequences, FiniteSets

VARIABLES input, pc, result

vars == <<input, pc, result>>

(***************************************************************************)
(* Bounds of the model.                                                    *)
(***************************************************************************)
MaxVersion == 4
MaxReportLen == 10
MaxSupportedLen == 5
MaxScale == 17

(***************************************************************************)
(* Byte and buffer helpers (node Buffer semantics).                        *)
(***************************************************************************)

\* buf[i] with a 0-based index; outside the buffer JavaScript yields
\* undefined, which every bit operation coerces to 0.
At(buf, i) == IF i >= 0 /\ i < Len(buf) THEN buf[i + 1] ELSE 0

\* buf.slice(from, to): the bytes at 0-based indices from .. to-1, clipped
\* to the buffer.
Slice(buf, from, to) ==
    LET hi == IF to < Len(buf) THEN to ELSE Len(buf)
    IN  IF from >= hi THEN <<>> ELSE SubSeq(buf, from + 1, hi)

RECURSIVE BitOr(_, _)
BitOr(a, b) ==
    IF a = 0 THEN b
    ELSE IF b = 0 THEN a
    ELSE (IF a % 2 = 1 \/ b % 2 = 1 THEN 1 ELSE 0) + 2 * BitOr(a \div 2, b \div 2)

RECURSIVE Pow(_, _)
Pow(b, n) == IF n = 0 THEN 1 ELSE b * Pow(b, n - 1)

BitSet(byte, k) == (byte \div Pow(2, k)) % 2 = 1

RECURSIVE UnsignedBE(_)
UnsignedBE(bytes) ==
    IF Len(bytes) = 0 THEN 0
    ELSE bytes[1] * Pow(256, Len(bytes) - 1) + UnsignedBE(Tail(bytes))

\* Two's-complement big-endian integer of Len(bytes) bytes.
SignedBE(bytes) ==
    IF Len(bytes) = 0 THEN 0
    ELSE (IF bytes[1] >= 128 THEN bytes[1] - 256 ELSE bytes[1])
            * Pow(256, Len(bytes) - 1)
         + UnsignedBE(Tail(bytes))

(***************************************************************************)
(* Imported primitives.                                                    *)
(***************************************************************************)

\* validatePayload(assertion): passes iff the assertion holds, otherwise
\* the constructor is left with the typed payload error.
validatePayload(assertion) == assertion

PayloadTooShort == "PayloadTooShort"

\* The marker a Maybe<number> holds when the device reports "unknown".
unknownNumber == -1

\* Size selector of the descriptor byte -> number of magnitude bytes.
ByteSize(sel) ==
    CASE sel = 1 -> 1
      [] sel = 2 -> 2
      [] sel = 3 -> 4
      [] OTHER   -> 0

\* Descriptor byte: [7:5] precision, [4:3] size selector, [2:0] scale bits;
\* then ByteSize big-endian signed magnitude bytes.  value stands for
\* magnitude * 10^(-precision).  reads are the indices of buf touched;
\* fault tells that the magnitude bytes lie past the end of buf.
parseFloatWithScale(buf) ==
    LET d         == At(buf, 0)
        precision == d \div 32
        size      == ByteSize((d \div 8) % 4)
        fault     == Len(buf) < 1 + size
    IN  [ scale     |-> d % 8,
          value     |-> [ magnitude |-> IF fault THEN 0
                                        ELSE SignedBE(Slice(buf, 1, 1 + size)),
                          precision |-> precision ],
          bytesRead |-> 1 + size,
          reads     |-> 0 .. size,
          fault     |-> fault ]

RECURSIVE parseBitMaskFrom(_, _, _)
parseBitMaskFrom(mask, n, startValue) ==
    IF n >= 8 * Len(mask) THEN <<>>
    ELSE (IF BitSet(mask[(n \div 8) + 1], n % 8) THEN <<n + startValue>> ELSE <<>>)
         \o parseBitMaskFrom(mask, n + 1, startValue)

\* Bit k of byte i set means index i*8 + k + startValue is present.
parseBitMask(mask, startValue) == parseBitMaskFrom(mask, 0, startValue)

\* The scale definition of (type, scale index); only the index matters here.
lookupMeterScale(type, scale) == [ type |-> type, key |-> scale ]

(***************************************************************************)
(* Outcomes of a constructor / serializer.                                 *)
(***************************************************************************)
NoResult == [ err |-> "none", reads |-> {}, obj |-> <<>> ]

\* The constructor threw: no command object exists.
Thrown(err, reads) == [ err |-> err, reads |-> reads, obj |-> <<>> ]

Built(reads, obj) == [ err |-> "none", reads |-> reads, obj |-> <<obj>> ]

(***************************************************************************)
(* MeterCCReport: the decode path.                                         *)
(***************************************************************************)

\* Faulty variant: a 1-byte payload passes the length check.
ReportLengthOKShort(payload) == Len(payload) >= 1

\* The assertion of validatePayload(this.payload.length >= 2)
ReportLengthOK(payload) == Len(payload) >= 2

\* let offset = 2 + bytesRead
ReportValueEnd(bytesRead) == 2 + bytesRead

\* this.version >= 2 && this.payload.length >= offset + 2
HasDeltaTime(version, payload, offset) ==
    version >= 2 /\ Len(payload) >= offset + 2

\* readUInt16BE(offset), 0xffff replaced by unknownNumber
DeltaTimeAt(payload, offset) ==
    LET raw == UnsignedBE(Slice(payload, offset, offset + 2))
    IN  IF raw = 65535 THEN unknownNumber ELSE raw

\* Faulty variant: the previous value is parsed whatever the delta time.
HasPreviousValueAlways(deltaTime, payload, offset, bytesRead) ==
    Len(payload) >= offset + bytesRead

\* this.deltaTime !== 0 && this.payload.length >= offset + bytesRead
HasPreviousValue(deltaTime, payload, offset, bytesRead) ==
    deltaTime # 0 /\ Len(payload) >= offset + bytesRead

\* this.version >= 4 && scale1 === 7 && this.payload.length >= offset + 1
HasScale2(version, scale1, payload, offset) ==
    version >= 4 /\ scale1 = 7 /\ Len(payload) >= offset + 1

MeterCCReport(version, payload) ==
    IF ~validatePayload(ReportLengthOK(payload))
    THEN Thrown(PayloadTooShort, {})
    ELSE
    LET type       == At(payload, 0) % 32
        rateType   == (At(payload, 0) \div 32) % 4
        scale1Bit2 == At(payload, 0) \div 128
        cur        == parseFloatWithScale(Slice(payload, 1, Len(payload)))
        bytesRead  == cur.bytesRead
        curReads   == {0} \cup {1 + i : i \in cur.reads}
        offset0    == ReportValueEnd(bytesRead)
        scale1     == BitOr(scale1Bit2 * 4, cur.scale)
        hasDelta   == HasDeltaTime(version, payload, offset0)
        deltaTime  == IF hasDelta THEN DeltaTimeAt(payload, offset0) ELSE 0
        offset1    == offset0 + 2
        hasPrev    == hasDelta
                      /\ HasPreviousValue(deltaTime, payload, offset1, bytesRead)
        \* Buffer.concat([Buffer.from([payload[1]]), payload.slice(offset)])
        prev       == parseFloatWithScale(
                          <<At(payload, 1)>> \o Slice(payload, offset1, Len(payload)))
        prevReads  == {IF i = 0 THEN 1 ELSE offset1 + i - 1 : i \in prev.reads}
        offset2    == IF hasPrev THEN offset1 + bytesRead ELSE offset1
        hasScale2  == hasDelta /\ HasScale2(version, scale1, payload, offset2)
        scale2     == IF hasScale2 THEN At(payload, offset2) ELSE 0
        scale      == IF scale1 = 7 THEN scale1 + scale2 ELSE scale1
        reads      == curReads
                      \cup (IF hasDelta THEN {offset0, offset0 + 1} ELSE {})
                      \cup (IF hasPrev THEN prevReads ELSE {})
                      \cup (IF hasScale2 THEN {offset2} ELSE {})
    IN  IF cur.fault THEN Thrown("OutOfBounds", curReads)
        ELSE IF hasPrev /\ prev.fault
             THEN Thrown("OutOfBounds", curReads \cup {offset0, offset0 + 1} \cup prevReads)
        ELSE Built(reads,
                   [ type          |-> type,
                     rateType      |-> rateType,
                     value         |-> cur.value,
                     deltaTime     |-> deltaTime,
                     previousValue |-> IF hasPrev THEN <<prev.value>> ELSE <<>>,
                     scale         |-> lookupMeterScale(type, scale) ])

(***************************************************************************)
(* MeterCCGet.serialize: the encode path.  scale and rateType are <<>>     *)
(* when undefined and <<n>> otherwise.                                     *)
(***************************************************************************)
MeterCCGet_serialize(version, scale, rateType) ==
    LET s      == IF scale = <<>> THEN 0 ELSE scale[1]
        escape == scale # <<>> /\ version >= 4 /\ s >= 7
        scale1 == IF scale = <<>> THEN 0
                  ELSE IF escape THEN 7
                  ELSE IF version >= 3 THEN s % 8
                  ELSE IF version >= 2 THEN s % 4
                  ELSE 0
        \* scale2 = this.scale >>> 3
        scale2 == IF escape THEN s \div 8 ELSE 0
        len0   == IF scale = <<>> THEN 0
                  ELSE IF escape THEN 2
                  ELSE IF version >= 2 THEN 1
                  ELSE 0
        withRate      == version >= 4 /\ rateType # <<>>
        rateTypeFlags == IF withRate THEN rateType[1] % 4 ELSE 0
        bufferLength  == IF withRate /\ len0 < 1 THEN 1 ELSE len0
        byte0  == BitOr(rateTypeFlags * 64, scale1 * 8) % 256
        byte1  == IF scale2 # 0 THEN scale2 % 256 ELSE 0
    IN  Built({}, [ payload |-> SubSeq(<<byte0, byte1>>, 1, bufferLength) ])

(***************************************************************************)
(* MeterCCSupportedReport: the decode path.                                *)
(***************************************************************************)

\* Faulty variant: the escape bit is left in the first bitmask byte.
SpreadFirstByteUnmasked(byte) == byte

\* this.payload[1] & 0b0_1111111
SpreadFirstByte(byte) == byte % 128

\* Faulty variant: the correction starts one index too late.
AlignScaleLate(scale) == IF scale > 8 THEN scale - 1 ELSE scale

\* scale => (scale >= 8 ? scale - 1 : scale)
AlignScale(scale) == IF scale >= 8 THEN scale - 1 ELSE scale

RECURSIVE MapAlignScale(_)
MapAlignScale(scales) ==
    IF scales = <<>> THEN <<>>
    ELSE <<AlignScale(Head(scales))>> \o MapAlignScale(Tail(scales))

MeterCCSupportedReport(version, payload) ==
    IF ~validatePayload(Len(payload) >= 2)
    THEN Thrown(PayloadTooShort, {})
    ELSE
    LET type          == At(payload, 0) % 32
        supportsReset == At(payload, 0) \div 128 = 1
        hasMoreScales == At(payload, 1) \div 128 = 1
        extraBytes    == At(payload, 2)
        spread        == MapAlignScale(parseBitMask(
                             <<SpreadFirstByte(At(payload, 1))>>
                                 \o Slice(payload, 3, 3 + extraBytes),
                             0))
        compact       == parseBitMask(<<At(payload, 1)>>, 0)
        rateTypes     == parseBitMask(<<(At(payload, 0) \div 32) % 4>>, 1)
    IN  IF hasMoreScales /\ ~validatePayload(Len(payload) >= 3)
        THEN Thrown(PayloadTooShort, {0, 1})
        ELSE IF hasMoreScales /\ ~validatePayload(Len(payload) >= 3 + extraBytes)
        THEN Thrown(PayloadTooShort, {0, 1, 2})
        ELSE Built({0, 1} \cup (IF hasMoreScales
                                THEN {2} \cup {3 + i : i \in 0 .. extraBytes - 1}
                                ELSE {}),
                   [ type               |-> type,
                     supportsReset      |-> supportsReset,
                     supportedScales    |-> IF hasMoreScales THEN spread ELSE compact,
                     supportedRateTypes |-> rateTypes ])

(***************************************************************************)
(* Inputs: frames handed over by the driver and Get requests of a caller.  *)
(***************************************************************************)
Versions == 1 .. MaxVersion

\* Byte 0: 0x01, 0xA1 (type 1 without / with high scale bit and rate type
\*         Consumed).
\* Byte 1: 0x0F (size 1, scale bits 7), 0x2B (precision 1, size 1, scale
\*         bits 3), 0x17 (size 2, scale bits 7), 0x5C (precision 2, size 4,
\*         scale bits 4).  Size selector 0, which section 4.2 leaves
\*         undefined, is not drawn.
\* Later bytes: 0x00, 0x03, 0xFF.
ReportByteAt(i) ==
    IF i = 0 THEN {1, 161}
    ELSE IF i = 1 THEN {15, 43, 23, 92}
    ELSE {0, 3, 255}

\* Byte 0: 0x01, 0xE1 (type 1, plain / with reset flag and both rate types).
\* Byte 1: 0x00, 0x47 (compact), 0xC7, 0x80, 0xFF (spread).
\* Later bytes (extra-byte count and tail): 0, 1, 2, 0x81, 0xFF.
SupportedByteAt(i) ==
    IF i = 0 THEN {1, 225}
    ELSE IF i = 1 THEN {0, 71, 199, 128, 255}
    ELSE {0, 1, 2, 129, 255}

\* Payloads of exactly n bytes drawn from byteAt.
PayloadsOfLen(byteAt(_), n) ==
    IF n = 0 THEN {<<>>}
    ELSE IF n = 1 THEN {<<b0>> : b0 \in byteAt(0)}
    ELSE {<<h[1], h[2]>> \o t : h \in byteAt(0) \X byteAt(1),
                                t \in [1 .. (n - 2) -> byteAt(2)]}

OptScale == {<<>>} \cup {<<s>> : s \in 0 .. MaxScale}

OptRateType == {<<>>} \cup {<<r>> : r \in 0 .. 2}

ReportFrames(n) ==
    [ cmd : {"Report"}, version : Versions,
      payload : PayloadsOfLen(ReportByteAt, n) ]

SupportedReportFrames(n) ==
    [ cmd : {"SupportedReport"}, version : Versions,
      payload : PayloadsOfLen(SupportedByteAt, n) ]

GetRequests ==
    [ cmd : {"Get"}, version : Versions, scale : OptScale, rateType : OptRateType ]

Init ==
    /\ \/ \E n \in 0 .. MaxReportLen : input \in ReportFrames(n)
       \/ \E n \in 0 .. MaxSupportedLen : input \in SupportedReportFrames(n)
       \/ input \in GetRequests
    /\ pc = "new"
    /\ result = NoResult

\* new MeterCCReport(driver, { data: payload })
NewMeterCCReport ==
    /\ pc = "new"
    /\ input.cmd = "Report"
    /\ result' = MeterCCReport(input.version, input.payload)
    /\ pc' = "done"
    /\ UNCHANGED input

\* new MeterCCSupportedReport(driver, { data: payload })
NewMeterCCSupportedReport ==
    /\ pc = "new"
    /\ input.cmd = "SupportedReport"
    /\ result' = MeterCCSupportedReport(input.version, input.payload)
    /\ pc' = "done"
    /\ UNCHANGED input

\* new MeterCCGet(driver, { scale, rateType }).serialize()
SerializeMeterCCGet ==
    /\ pc = "new"
    /\ input.cmd = "Get"
    /\ result' = MeterCCGet_serialize(input.version, input.scale, input.rateType)
    /\ pc' = "done"
    /\ UNCHANGED input

Next ==
    \/ NewMeterCCReport
    \/ NewMeterCCSupportedReport
    \/ SerializeMeterCCGet

Spec == Init /\ [][Next]_vars

(***************************************************************************)
(* Vocabulary of the properties.                                           *)
(***************************************************************************)
Decoded(cmd) == pc = "done" /\ input.cmd = cmd

BuiltObject == result.err = "none" /\ result.obj # <<>>

SeqToSet(s) == {s[i] : i \in 1 .. Len(s)}

NoDuplicates(s) == Cardinality(SeqToSet(s)) = Len(s)

\* Wire layout of a Report as the protocol lays it out: byte 1 is the
\* descriptor, the magnitude follows, then delta time, then the previous
\* magnitude.
WireSize(payload) == ByteSize((payload[2] \div 8) % 4)

WireScale1(payload) == BitOr((payload[1] \div 128) * 4, payload[2] % 8)

WireDeltaBytes(payload) ==
    SubSeq(payload, 3 + WireSize(payload), 4 + WireSize(payload))

WirePreviousBytes(payload) ==
    SubSeq(payload, 5 + WireSize(payload), 4 + 2 * WireSize(payload))

(***************************************************************************)
(* C1: a Report or SupportedReport payload of fewer than 2 bytes is        *)
(* rejected with the payload-too-short error before any byte is read, and  *)
(* no command object is produced.                                          *)
(***************************************************************************)
C1_ShortPayloadRejected ==
    ( /\ pc = "done"
      /\ input.cmd \in {"Report", "SupportedReport"}
      /\ Len(input.payload) < 2 )
    => result = Thrown(PayloadTooShort, {})

C1_Witness ==
    /\ Decoded("Report")
    /\ Len(input.payload) = 1
    /\ result.err = PayloadTooShort

(***************************************************************************)
(* C2: at version >= 4 a Report [b0, descriptor, magnitude.., e] whose     *)
(* composed scale is 7 decodes to scale 7 + e; without the trailing byte   *)
(* it decodes to scale 7; below version 4 the extension is never added.    *)
(***************************************************************************)
C2_ScaleExtension ==
    ( Decoded("Report") /\ Len(input.payload) >= 2 )
    => LET p        == input.payload
           size     == WireSize(p)
           composed == WireScale1(p)
       IN  /\ ( input.version >= 4 /\ composed = 7 /\ Len(p) = 3 + size )
              => ( BuiltObject /\ result.obj[1].scale.key = 7 + p[Len(p)] )
           /\ ( input.version >= 4 /\ composed = 7 /\ Len(p) = 2 + size )
              => ( BuiltObject /\ result.obj[1].scale.key = 7 )
           /\ ( input.version < 4 /\ BuiltObject )
              => result.obj[1].scale.key = composed

(***************************************************************************)
(* C3: at version >= 2, when at least 2 bytes follow the current value,    *)
(* delta time is the big-endian 16-bit value of exactly those two bytes,   *)
(* with 0xFF 0xFF decoding to the unknown marker.                          *)
(***************************************************************************)
C3_DeltaTimeAfterValue ==
    ( /\ Decoded("Report")
      /\ input.version >= 2
      /\ Len(input.payload) >= 2
      /\ Len(input.payload) >= 4 + WireSize(input.payload) )
    => LET d == WireDeltaBytes(input.payload)
       IN  /\ BuiltObject
           /\ result.obj[1].deltaTime =
                  IF d = <<255, 255>> THEN unknownNumber ELSE d[1] * 256 + d[2]

(***************************************************************************)
(* C4: in every decoded Report a delta time of 0 implies that no previous  *)
(* value is present; below version 2 and for payloads too short to carry   *)
(* a delta time, delta time is 0 and the previous value is absent.         *)
(***************************************************************************)
C4_ZeroDeltaNoPrevious ==
    ( Decoded("Report") /\ BuiltObject )
    => /\ result.obj[1].deltaTime = 0 => result.obj[1].previousValue = <<>>
       /\ ( input.version < 2
            \/ Len(input.payload) < 4 + WireSize(input.payload) )
          => ( /\ result.obj[1].deltaTime = 0
               /\ result.obj[1].previousValue = <<>> )

\* Delta time 0x00 0x00 was read and enough bytes for a previous value follow.
C4_Witness ==
    /\ Decoded("Report")
    /\ BuiltObject
    /\ input.version >= 2
    /\ WireSize(input.payload) = 1
    /\ Len(input.payload) = 8
    /\ {4, 5} \subseteq result.reads
    /\ result.obj[1].deltaTime = 0
    /\ result.obj[1].previousValue = <<>>

(***************************************************************************)
(* C5: at version >= 2, with a non-zero delta time and at least byte_size  *)
(* bytes after the delta-time field, the previous value is present and is  *)
(* the decode of the current value's descriptor with those bytes.          *)
(***************************************************************************)
C5_PreviousValueSharesDescriptor ==
    ( /\ Decoded("Report")
      /\ input.version >= 2
      /\ Len(input.payload) >= 2
      /\ Len(input.payload) >= 4 + 2 * WireSize(input.payload)
      /\ WireDeltaBytes(input.payload) # <<0, 0>> )
    => /\ BuiltObject
       /\ result.obj[1].previousValue =
              << [ magnitude |-> SignedBE(WirePreviousBytes(input.payload)),
                   precision |-> input.payload[2] \div 32 ] >>

(***************************************************************************)
(* C6: at version >= 4 a Get for scale s >= 7 serializes to 2 bytes, the   *)
(* scale field of byte 0 being 7 and byte 1 being s - 7.                   *)
(***************************************************************************)
C6_GetEscapeRoundTrip ==
    ( /\ Decoded("Get")
      /\ input.version >= 4
      /\ input.scale # <<>>
      /\ input.scale[1] >= 7 )
    => /\ BuiltObject
       /\ Len(result.obj[1].payload) = 2
       /\ (result.obj[1].payload[1] \div 8) % 8 = 7
       /\ result.obj[1].payload[2] = input.scale[1] - 7
       /\ 7 + result.obj[1].payload[2] = input.scale[1]

(***************************************************************************)
(* C7: a Get for a scale >= 7 at version 2 or 3 fails with an encode       *)
(* contract violation and returns no payload.                              *)
(***************************************************************************)
C7_GetRejectsUnrepresentableScale ==
    ( /\ Decoded("Get")
      /\ input.version \in {2, 3}
      /\ input.scale # <<>>
      /\ input.scale[1] >= 7 )
    => ( result.err = "EncodeContractViolation" /\ result.obj = <<>> )

(***************************************************************************)
(* C8: the compact SupportedReport [b0, m] and every spread form           *)
(* [b0, m | 0x80, e, e zero bytes] decode to the same supported scales,    *)
(* the bit positions 0..6 set in m.                                        *)
(***************************************************************************)
IsCompactForm(p) == Len(p) = 2 /\ p[2] < 128

IsZeroTailSpreadForm(p) ==
    /\ Len(p) >= 3
    /\ p[2] >= 128
    /\ Len(p) = 3 + p[3]
    /\ \A i \in 4 .. Len(p) : p[i] = 0

C8_CompactSpreadAgree ==
    ( /\ Decoded("SupportedReport")
      /\ IsCompactForm(input.payload) \/ IsZeroTailSpreadForm(input.payload) )
    => /\ BuiltObject
       /\ NoDuplicates(result.obj[1].supportedScales)
       /\ SeqToSet(result.obj[1].supportedScales)
              = {k \in 0 .. 6 : BitSet(input.payload[2] % 128, k)}

C8_Witness ==
    /\ Decoded("SupportedReport")
    /\ IsZeroTailSpreadForm(input.payload)
    /\ input.payload[3] = 2
    /\ BuiltObject
    /\ SeqToSet(result.obj[1].supportedScales) = {0, 1, 2, 6}

(***************************************************************************)
(* C9: in spread form bits 0..6 of byte 1 yield indices 0..6 and bit k of  *)
(* the j-th extra byte yields 8*j + k - 1; the decoded supported scales    *)
(* hold no duplicate.                                                      *)
(***************************************************************************)
C9_SpreadInjective ==
    ( /\ Decoded("SupportedReport")
      /\ BuiltObject
      /\ Len(input.payload) >= 3
      /\ input.payload[2] >= 128 )
    => LET p == input.payload
       IN  /\ NoDuplicates(result.obj[1].supportedScales)
           /\ SeqToSet(result.obj[1].supportedScales)
                  = {k \in 0 .. 6 : BitSet(p[2], k)}
                    \cup {8 * j + k - 1 : <<j, k>> \in
                            {jk \in (1 .. p[3]) \X (0 .. 7) : BitSet(p[3 + jk[1]], jk[2])}}

\* Bit 6 of byte 1 and bit 0 of the first extra byte are both set.
C9_Witness ==
    /\ Decoded("SupportedReport")
    /\ BuiltObject
    /\ Len(input.payload) >= 4
    /\ input.payload[2] >= 128
    /\ input.payload[3] >= 1
    /\ {6, 7} \subseteq SeqToSet(result.obj[1].supportedScales)

(***************************************************************************)
(* C10: decoding a Report or SupportedReport either fails with the         *)
(* payload-too-short error or builds the object, and in both cases reads   *)
(* only indices below the payload length.                                  *)
(***************************************************************************)
C10_ReadsInBounds ==
    ( pc = "done" /\ input.cmd \in {"Report", "SupportedReport"} )
    => /\ result.err \in {"none", PayloadTooShort}
       /\ \A i \in result.reads : i < Len(input.payload)

====
